---- MODULE Spec2Model ----
(***************************************************************************)
(* Model of bin/validate-openapi-specs/Sources/OpenAPISchemaValidator/     *)
(* validate.py: a straight-line script that parses three positional        *)
(* arguments, reads an OpenAPI document and a JSON document, validates the *)
(* OpenAPI document, looks up components.schemas[<schema>] and validates   *)
(* the JSON document against it, printing OK.  Every statement of the      *)
(* script is one action; an uncaught exception ends the process with exit  *)
(* status 1, an argparse error with 2.                                     *)
(***************************************************************************)
EXTENDS Integers, Sequences, FiniteSets, TLC

VARIABLES argv, fs, specChecksRefs,
          pc, args, spec_dict, json, ref_resolver, schema,
          stdout, errKind, exitCode,
          trace, opened, run, prev

env  == <<argv, fs, specChecksRefs>>
vars == <<argv, fs, specChecksRefs, pc, args, spec_dict, json, ref_resolver, schema,
          stdout, errKind, exitCode, trace, opened, run, prev>>

----------------------------------------------------------------------------
(* Bounds *)

MaxArgs == 4
MaxRuns == 2

----------------------------------------------------------------------------
(* Values *)

\* command-line tokens: the help flag argparse adds by default, two paths of
\* existing files, and a string that names no file
HelpFlag == "-h"
Paths == {"spec.json", "doc.json"}
Tokens == {HelpFlag, "spec.json", "doc.json", "A"}

\* schema names that may be defined under components.schemas, and the targets
\* a $ref may point to ("Z" is never defined: a dangling reference)
Names == {"A", "B"}
RefTargets == {"A", "B", "Z"}

\* a schema is either a type constraint or a $ref to #/components/schemas/<ref>
TypeSchema(t) == [type |-> t, ref |-> ""]
RefSchema(n) == [type |-> "", ref |-> n]
Schemas == {TypeSchema(t) : t \in {"integer", "string"}} \cup {RefSchema(n) : n \in RefTargets}

SchemaMaps == UNION {[D -> Schemas] : D \in SUBSET Names}

\* parsed file contents.  kind "garbage" is a file that does not parse;
\* "dict" is a mapping that may or may not be a well-formed OpenAPI 3.0
\* document (openapi), with components absent ("absent"), present without a
\* schemas key ("noschemas") or with a schemas mapping ("schemas")
Garbage == [kind |-> "garbage", openapi |-> FALSE, components |-> "absent", schemas |-> <<>>]
IntDoc == [kind |-> "integer", openapi |-> FALSE, components |-> "absent", schemas |-> <<>>]
StrDoc == [kind |-> "string", openapi |-> FALSE, components |-> "absent", schemas |-> <<>>]
Dict(o, c, s) == [kind |-> "dict", openapi |-> o, components |-> c, schemas |-> s]
SpecDicts == {Dict(o, c, <<>>) : o \in BOOLEAN, c \in {"absent", "noschemas"}}
             \cup {Dict(o, "schemas", s) : o \in BOOLEAN, s \in SchemaMaps}

NotLoaded == [kind |-> "unset", openapi |-> FALSE, components |-> "absent", schemas |-> <<>>]
NoArgs == [spec |-> "", json |-> "", schema |-> ""]
NoSchema == [type |-> "", ref |-> ""]
Running == -1

Stages == <<"parse_args", "read_spec", "read_json", "validate_spec",
            "ref_resolver", "lookup", "validate", "print">>

----------------------------------------------------------------------------
(* argparse: three required positionals and the default -h/--help option *)

Positionals(a) == SelectSeq(a, LAMBDA t : t # HelpFlag)
HasHelp(a) == \E i \in 1..Len(a) : a[i] = HelpFlag

\* mutant: the positionals declared optional (nargs='?'), so that a missing
\* one is no longer an error
parse_args_optional(a) ==
    IF HasHelp(a) THEN "help"
    ELSE IF Len(Positionals(a)) > 3 THEN "usage"
    ELSE "ok"

\* "help": print help and exit 0;  "usage": error, exit 2;  "ok": namespace
parse_args(a) ==
    IF HasHelp(a) THEN "help"
    ELSE IF Len(Positionals(a)) # 3 THEN "usage"
    ELSE "ok"

\* the i-th positional, "" (None) when it was not supplied
Arg(a, i) == IF i <= Len(a) THEN a[i] ELSE ""

Namespace(a) == [spec |-> Arg(a, 1), json |-> Arg(a, 2), schema |-> Arg(a, 3)]

----------------------------------------------------------------------------
(* file reading *)

\* outcome of reading and parsing path p: "io" when the path names no file,
\* "parse" when the content does not parse, else "none"
ReadError(p) ==
    IF p \notin DOMAIN fs THEN "io"
    ELSE IF fs[p].kind = "garbage" THEN "parse"
    ELSE "none"

----------------------------------------------------------------------------
(* openapi_spec_validator.validate_spec *)

Dangling(d) == \E n \in DOMAIN d.schemas :
                  d.schemas[n].ref # "" /\ d.schemas[n].ref \notin DOMAIN d.schemas

validate_spec(d) ==
    IF d.kind # "dict" \/ ~d.openapi THEN "spec"
    ELSE IF specChecksRefs /\ d.components = "schemas" /\ Dangling(d) THEN "ref"
    ELSE "none"

----------------------------------------------------------------------------
(* openapi_schema_validator.validate with a RefResolver rooted at root *)

RECURSIVE Check(_, _, _, _)

\* mutant: no resolver is passed, a schema that is a $ref constrains nothing
Check_noref(inst, s, root, fuel) ==
    IF s.ref # "" THEN "none"
    ELSE IF inst.kind = s.type THEN "none"
    ELSE "validation"

\* a $ref is resolved against root's components.schemas and replaces the
\* schema; following more references than there are schemas is a cycle
Check(inst, s, root, fuel) ==
    IF s.ref # "" THEN
        IF root.components # "schemas" \/ s.ref \notin DOMAIN root.schemas THEN "ref"
        ELSE IF fuel = 0 THEN "recursion"
        ELSE Check(inst, root.schemas[s.ref], root, fuel - 1)
    ELSE IF inst.kind = s.type THEN "none"
    ELSE "validation"

validate(inst, s, root) == Check(inst, s, root, Cardinality(Names))

\* spec_dict["components"]["schemas"][name]
HasSchema(d, name) == d.components = "schemas" /\ name \in DOMAIN d.schemas

----------------------------------------------------------------------------
(* the process *)

Fail(stage, kind, code) ==
    /\ pc' = "done"
    /\ errKind' = kind
    /\ exitCode' = code
    /\ trace' = Append(trace, stage)

Step(stage, next) ==
    /\ pc' = next
    /\ trace' = Append(trace, stage)
    /\ UNCHANGED <<errKind, exitCode>>

Init ==
    /\ argv \in UNION {[1..n -> Tokens] : n \in 0..MaxArgs}
    /\ fs \in [Paths -> SpecDicts \cup {Garbage, IntDoc, StrDoc}]
    /\ fs["spec.json"] \in SpecDicts \cup {Garbage}
    /\ fs["doc.json"] \in {Garbage, IntDoc, StrDoc}
    /\ specChecksRefs \in BOOLEAN
    /\ pc = "parse_args"
    /\ args = NoArgs
    /\ spec_dict = NotLoaded
    /\ json = NotLoaded
    /\ ref_resolver = NotLoaded
    /\ schema = NoSchema
    /\ stdout = <<>>
    /\ errKind = "none"
    /\ exitCode = Running
    /\ trace = <<>>
    /\ opened = {}
    /\ run = 1
    /\ prev = [exitCode |-> Running, stdout |-> <<>>, errKind |-> "none"]

\* line 35
ParseArgs ==
    /\ pc = "parse_args"
    /\ LET r == parse_args(argv) IN
       CASE r = "help" ->
              /\ stdout' = Append(stdout, "help")
              /\ pc' = "done" /\ exitCode' = 0
              /\ trace' = Append(trace, "parse_args")
              /\ UNCHANGED <<args, errKind>>
         [] r = "usage" ->
              /\ Fail("parse_args", "usage", 2)
              /\ UNCHANGED <<args, stdout>>
         [] OTHER ->
              /\ args' = Namespace(Positionals(argv))
              /\ Step("parse_args", "read_spec")
              /\ UNCHANGED stdout
    /\ UNCHANGED <<env, spec_dict, json, ref_resolver, schema, opened, run, prev>>

\* mutant: the specification is validated as soon as it is read, before the
\* JSON file is opened
ReadSpec_eager ==
    /\ pc = "read_spec"
    /\ LET e == ReadError(args.spec) IN
       IF e = "io" THEN
           /\ Fail("read_spec", "io", 1)
           /\ UNCHANGED <<spec_dict, opened>>
       ELSE
           /\ opened' = opened \cup {args.spec}
           /\ IF e = "parse" THEN Fail("read_spec", "parse", 1) /\ UNCHANGED spec_dict
              ELSE IF validate_spec(fs[args.spec]) # "none"
                   THEN Fail("read_spec", validate_spec(fs[args.spec]), 1) /\ UNCHANGED spec_dict
              ELSE spec_dict' = fs[args.spec] /\ Step("read_spec", "read_json")
    /\ UNCHANGED <<env, args, json, ref_resolver, schema, stdout, run, prev>>

\* line 37
ReadSpec ==
    /\ pc = "read_spec"
    /\ LET e == ReadError(args.spec) IN
       IF e = "io" THEN
           /\ Fail("read_spec", "io", 1)
           /\ UNCHANGED <<spec_dict, opened>>
       ELSE
           /\ opened' = opened \cup {args.spec}
           /\ IF e = "parse" THEN Fail("read_spec", "parse", 1) /\ UNCHANGED spec_dict
              ELSE spec_dict' = fs[args.spec] /\ Step("read_spec", "read_json")
    /\ UNCHANGED <<env, args, json, ref_resolver, schema, stdout, run, prev>>

\* mutant: the JSON file is opened for update and left truncated
ReadJson_clobber ==
    /\ pc = "read_json"
    /\ LET e == ReadError(args.json) IN
       IF e = "io" THEN
           /\ Fail("read_json", "io", 1)
           /\ UNCHANGED <<json, opened, fs>>
       ELSE
           /\ opened' = opened \cup {args.json}
           /\ fs' = [fs EXCEPT ![args.json] = Garbage]
           /\ IF e = "parse" THEN Fail("read_json", "parse", 1) /\ UNCHANGED json
              ELSE json' = fs[args.json] /\ Step("read_json", "validate_spec")
    /\ UNCHANGED <<argv, specChecksRefs, args, spec_dict, ref_resolver, schema, stdout, run, prev>>

\* line 38
ReadJson ==
    /\ pc = "read_json"
    /\ LET e == ReadError(args.json) IN
       IF e = "io" THEN
           /\ Fail("read_json", "io", 1)
           /\ UNCHANGED <<json, opened>>
       ELSE
           /\ opened' = opened \cup {args.json}
           /\ IF e = "parse" THEN Fail("read_json", "parse", 1) /\ UNCHANGED json
              ELSE json' = fs[args.json] /\ Step("read_json", "validate_spec")
    /\ UNCHANGED <<env, args, spec_dict, ref_resolver, schema, stdout, run, prev>>

\* mutant: the errors of the specification are computed but not raised
ValidateSpec_noraise ==
    /\ pc = "validate_spec"
    /\ Step("validate_spec", "ref_resolver")
    /\ UNCHANGED <<env, args, spec_dict, json, ref_resolver, schema, stdout, opened, run, prev>>

\* line 40
ValidateSpec ==
    /\ pc = "validate_spec"
    /\ LET e == validate_spec(spec_dict) IN
       IF e # "none" THEN Fail("validate_spec", e, 1)
       ELSE Step("validate_spec", "ref_resolver")
    /\ UNCHANGED <<env, args, spec_dict, json, ref_resolver, schema, stdout, opened, run, prev>>

\* line 42
MakeResolver ==
    /\ pc = "ref_resolver"
    /\ ref_resolver' = spec_dict
    /\ Step("ref_resolver", "lookup")
    /\ UNCHANGED <<env, args, spec_dict, json, schema, stdout, opened, run, prev>>

\* mutant: an absent name falls back to some schema of the specification
Lookup_default ==
    /\ pc = "lookup"
    /\ IF HasSchema(spec_dict, args.schema)
       THEN schema' = spec_dict.schemas[args.schema] /\ Step("lookup", "validate")
       ELSE IF spec_dict.components = "schemas" /\ DOMAIN spec_dict.schemas # {}
       THEN /\ schema' = spec_dict.schemas[CHOOSE n \in DOMAIN spec_dict.schemas : TRUE]
            /\ Step("lookup", "validate")
       ELSE Fail("lookup", "lookup", 1) /\ UNCHANGED schema
    /\ UNCHANGED <<env, args, spec_dict, json, ref_resolver, stdout, opened, run, prev>>

\* mutant: spec_dict.get("components", {}).get("schemas", {}), so that only
\* the last subscript can fail
Lookup_get ==
    /\ pc = "lookup"
    /\ IF HasSchema(spec_dict, args.schema)
       THEN schema' = spec_dict.schemas[args.schema] /\ Step("lookup", "validate")
       ELSE IF spec_dict.components # "schemas"
       THEN schema' = NoSchema /\ Step("lookup", "validate")
       ELSE Fail("lookup", "lookup", 1) /\ UNCHANGED schema
    /\ UNCHANGED <<env, args, spec_dict, json, ref_resolver, stdout, opened, run, prev>>

\* line 43, the argument spec_dict["components"]["schemas"][args.schema]
Lookup ==
    /\ pc = "lookup"
    /\ IF HasSchema(spec_dict, args.schema)
       THEN schema' = spec_dict.schemas[args.schema] /\ Step("lookup", "validate")
       ELSE Fail("lookup", "lookup", 1) /\ UNCHANGED schema
    /\ UNCHANGED <<env, args, spec_dict, json, ref_resolver, stdout, opened, run, prev>>

\* mutant: the validation error is caught and dropped
ValidateDoc_swallow ==
    /\ pc = "validate"
    /\ Step("validate", "print")
    /\ UNCHANGED <<env, args, spec_dict, json, ref_resolver, schema, stdout, opened, run, prev>>

\* mutant: the instance is coerced to the type of the schema while validated
ValidateDoc_coerce ==
    /\ pc = "validate"
    /\ json' = [json EXCEPT !.kind = schema.type]
    /\ LET e == validate(json, schema, ref_resolver) IN
       IF e # "none" THEN Fail("validate", e, 1)
       ELSE Step("validate", "print")
    /\ UNCHANGED <<env, args, spec_dict, ref_resolver, schema, stdout, opened, run, prev>>

\* line 43, the call of validate
ValidateDoc ==
    /\ pc = "validate"
    /\ LET e == validate(json, schema, ref_resolver) IN
       IF e # "none" THEN Fail("validate", e, 1)
       ELSE Step("validate", "print")
    /\ UNCHANGED <<env, args, spec_dict, json, ref_resolver, schema, stdout, opened, run, prev>>

\* mutant: the confirmation goes to the error stream
PrintOK_stderr ==
    /\ pc = "print"
    /\ pc' = "done"
    /\ exitCode' = 0
    /\ trace' = Append(trace, "print")
    /\ UNCHANGED <<env, args, spec_dict, json, ref_resolver, schema, stdout, errKind, opened, run, prev>>

\* line 44 and the end of the script
PrintOK ==
    /\ pc = "print"
    /\ stdout' = Append(stdout, "OK")
    /\ pc' = "done"
    /\ exitCode' = 0
    /\ trace' = Append(trace, "print")
    /\ UNCHANGED <<env, args, spec_dict, json, ref_resolver, schema, errKind, opened, run, prev>>

\* the tool is invoked again with the same command line on the same files:
\* a new process, with nothing but the file system carried over
Rerun ==
    /\ pc = "done"
    /\ run < MaxRuns
    /\ run' = run + 1
    /\ prev' = [exitCode |-> exitCode, stdout |-> stdout, errKind |-> errKind]
    /\ pc' = "parse_args"
    /\ args' = NoArgs
    /\ spec_dict' = NotLoaded
    /\ json' = NotLoaded
    /\ ref_resolver' = NotLoaded
    /\ schema' = NoSchema
    /\ stdout' = <<>>
    /\ errKind' = "none"
    /\ exitCode' = Running
    /\ trace' = <<>>
    /\ opened' = {}
    /\ UNCHANGED env

Next ==
    \/ ParseArgs
    \/ ReadSpec
    \/ ReadJson
    \/ ValidateSpec
    \/ MakeResolver
    \/ Lookup
    \/ ValidateDoc
    \/ PrintOK
    \/ Rerun

Spec == Init /\ [][Next]_vars

TypeOK ==
    /\ pc \in {"parse_args", "read_spec", "read_json", "validate_spec",
               "ref_resolver", "lookup", "validate", "print", "done"}
    /\ exitCode \in {Running, 0, 1, 2}
    /\ run \in 1..MaxRuns

----------------------------------------------------------------------------
(* Vocabulary of the properties, stated on the inputs of a run *)

Last(t) == t[Len(t)]
InTrace(st) == \E i \in 1..Len(trace) : trace[i] = st
Printed(x) == \E i \in 1..Len(stdout) : stdout[i] = x

ArgsOk == ~HasHelp(argv) /\ Len(argv) = 3
SpecReadable == ArgsOk /\ argv[1] \in DOMAIN fs /\ fs[argv[1]].kind # "garbage"
JsonReadable == ArgsOk /\ argv[2] \in DOMAIN fs /\ fs[argv[2]].kind # "garbage"
SpecIsValid == SpecReadable /\ validate_spec(fs[argv[1]]) = "none"
SchemaPresent == /\ SpecReadable
                 /\ fs[argv[1]].components = "schemas"
                 /\ argv[3] \in DOMAIN fs[argv[1]].schemas
DocConforms == /\ SchemaPresent
               /\ JsonReadable
               /\ validate(fs[argv[2]], fs[argv[1]].schemas[argv[3]], fs[argv[1]]) = "none"

\* the stages at which each kind of error is raised
StagesOf(k) ==
    CASE k = "usage" -> {"parse_args"}
      [] k = "io" -> {"read_spec", "read_json"}
      [] k = "parse" -> {"read_spec", "read_json"}
      [] k = "spec" -> {"validate_spec"}
      [] k = "ref" -> {"validate_spec", "validate"}
      [] k = "lookup" -> {"lookup"}
      [] k = "validation" -> {"validate"}
      [] k = "recursion" -> {"validate"}
      [] OTHER -> {}

\* C1: a run with exactly three arguments, two readable files, a valid
\* specification, a schema name present under components.schemas and a
\* conforming document prints exactly OK, once, and exits 0.
C1_SuccessPrintsOK ==
    (pc = "done" /\ ArgsOk /\ SpecReadable /\ JsonReadable /\ SpecIsValid
        /\ SchemaPresent /\ DocConforms)
    => (stdout = <<"OK">> /\ exitCode = 0 /\ errKind = "none")

C1_Witness ==
    /\ pc = "done" /\ ArgsOk /\ SpecIsValid /\ DocConforms
    /\ stdout = <<"OK">> /\ exitCode = 0

\* C2: a failure at any stage ends the process with a non-zero status, at the
\* stage that failed, with nothing printed; a document that violates the
\* named schema makes the run end non-zero without OK.
C2_FailureIsFatal ==
    /\ errKind # "none" =>
          /\ pc = "done"
          /\ exitCode \in {1, 2}
          /\ ~Printed("OK")
          /\ trace = SubSeq(Stages, 1, Len(trace))
          /\ Last(trace) \in StagesOf(errKind)
    /\ (pc = "done" /\ SpecIsValid /\ SchemaPresent /\ JsonReadable /\ ~DocConforms)
          => (exitCode \notin {0, Running} /\ ~Printed("OK"))

C2_Witness ==
    /\ pc = "done" /\ errKind = "validation" /\ exitCode = 1
    /\ SpecIsValid /\ SchemaPresent /\ JsonReadable /\ ~DocConforms

\* C3: when the specification file is not a valid OpenAPI 3.0 document, the
\* run never reaches the schema lookup nor the validation of the document,
\* and ends with a non-zero status.
C3_InvalidSpecStopsEarly ==
    (SpecReadable /\ ~SpecIsValid) =>
        /\ ~InTrace("ref_resolver") /\ ~InTrace("lookup") /\ ~InTrace("validate")
        /\ schema = NoSchema
        /\ pc = "done" => (exitCode \notin {0, Running} /\ ~Printed("OK"))

C3_Witness ==
    /\ pc = "done" /\ SpecReadable /\ JsonReadable /\ ~SpecIsValid
    /\ Last(trace) = "validate_spec" /\ errKind = "spec"
    /\ HasSchema(spec_dict, args.schema)

\* C4: with a valid specification and a schema name that is no key of
\* components.schemas the run ends non-zero with a lookup failure; no other
\* schema is substituted and the document is never validated.
C4_AbsentNameIsLookupFailure ==
    (SpecIsValid /\ JsonReadable /\ ~SchemaPresent) =>
        /\ ~InTrace("validate")
        /\ schema = NoSchema
        /\ pc = "done" => (errKind = "lookup" /\ exitCode = 1 /\ stdout = <<>>)

C4_Witness ==
    /\ pc = "done" /\ errKind = "lookup"
    /\ spec_dict.components = "schemas" /\ DOMAIN spec_dict.schemas # {}
    /\ args.schema \notin DOMAIN spec_dict.schemas

\* C5 as written: whenever one of the three positionals is missing the run
\* ends with a usage error and a non-zero status, and no file is opened.
C5_MissingArgIsUsageError ==
    (pc = "done" /\ Len(Positionals(argv)) < 3)
    => (errKind = "usage" /\ exitCode \notin {0, Running} /\ opened = {})

\* C5 amended: when a positional is missing no file is ever opened; the run
\* ends with a usage error and status 2 unless the help option is given, in
\* which case the help text is printed and the status is 0.
C5_MissingArgNoIO ==
    Len(Positionals(argv)) < 3 =>
        /\ opened = {}
        /\ ~InTrace("read_spec") /\ ~InTrace("read_json")
        /\ (pc = "done" /\ ~HasHelp(argv)) => (errKind = "usage" /\ exitCode = 2 /\ stdout = <<>>)
        /\ (pc = "done" /\ HasHelp(argv)) => (errKind = "none" /\ exitCode = 0 /\ stdout = <<"help">>)

C5_Witness ==
    /\ pc = "done" /\ Len(argv) = 2 /\ ~HasHelp(argv)
    /\ argv[1] \in DOMAIN fs
    /\ errKind = "usage" /\ exitCode = 2

\* C6: when the named schema is a $ref to another schema of the same
\* specification, the run ends as the validation of the document against the
\* referenced definition does: OK and status 0 exactly when the document
\* satisfies the definition the reference leads to.
C6_RefIsDereferenced ==
    (pc = "done" /\ InTrace("validate") /\ schema.ref # "" /\ schema.ref # args.schema
        /\ HasSchema(spec_dict, schema.ref))
    => LET target == spec_dict.schemas[schema.ref] IN
       /\ errKind = validate(json, target, spec_dict)
       /\ target.ref = "" =>
             ((stdout = <<"OK">> /\ exitCode = 0) <=> json.kind = target.type)

C6_Witness ==
    /\ pc = "done" /\ InTrace("validate")
    /\ schema.ref # "" /\ schema.ref # args.schema
    /\ HasSchema(spec_dict, schema.ref)
    /\ spec_dict.schemas[schema.ref].ref = ""
    /\ json.kind = spec_dict.schemas[schema.ref].type
    /\ stdout = <<"OK">> /\ exitCode = 0

\* C7: a second invocation with the same command line and the same files
\* ends with the status, the output and the error kind of the first.
C7_Idempotent ==
    (pc = "done" /\ run > 1)
    => (exitCode = prev.exitCode /\ stdout = prev.stdout /\ errKind = prev.errKind)

C7_Witness ==
    /\ pc = "done" /\ run > 1
    /\ stdout = <<"OK">> /\ prev.stdout = <<"OK">> /\ prev.exitCode = 0

\* C8: no step writes a file, and from its load to the exit of the process
\* each loaded document is the value read from its file.
C8_InputsUnchanged ==
    [][/\ fs' = fs
       /\ (spec_dict'.kind # "unset") => (spec_dict' = fs[args'.spec])
       /\ (json'.kind # "unset") => (json' = fs[args'.json])
       /\ (spec_dict.kind # "unset" /\ pc' # "parse_args") => (spec_dict' = spec_dict)
       /\ (json.kind # "unset" /\ pc' # "parse_args") => (json' = json)]_vars

C8_Witness ==
    /\ pc = "done" /\ InTrace("validate")
    /\ spec_dict = fs[args.spec] /\ json = fs[args.json]
    /\ errKind = "validation"

\* the stage at which a run ends and the error kind it reports, from its
\* inputs; jp is the kind reported for a JSON file that does not parse
Expected(jp) ==
    IF HasHelp(argv) THEN <<1, "none">>
    ELSE IF Len(argv) # 3 THEN <<1, "usage">>
    ELSE IF argv[1] \notin DOMAIN fs THEN <<2, "io">>
    ELSE IF fs[argv[1]].kind = "garbage" THEN <<2, "parse">>
    ELSE IF argv[2] \notin DOMAIN fs THEN <<3, "io">>
    ELSE IF fs[argv[2]].kind = "garbage" THEN <<3, jp>>
    ELSE IF ~SpecIsValid THEN <<4, validate_spec(fs[argv[1]])>>
    ELSE IF ~SchemaPresent THEN <<6, "lookup">>
    ELSE IF ~DocConforms
         THEN <<7, validate(fs[argv[2]], fs[argv[1]].schemas[argv[3]], fs[argv[1]])>>
    ELSE <<8, "none">>

StagesInOrder(jp) ==
    /\ trace = SubSeq(Stages, 1, Len(trace))
    /\ pc = "done" => (Len(trace) = Expected(jp)[1] /\ errKind = Expected(jp)[2])

\* C9 as written: the stages run in the fixed order and the error reported is
\* that of the first failing stage, a JSON file that cannot be read or cannot
\* be parsed being reported as an I/O error.
C9_OrderUnparsableIsIO == StagesInOrder("io")

\* C9 amended: the stages run in the fixed order and the error reported is
\* that of the first failing stage; a JSON file that cannot be read is an I/O
\* error and one that cannot be parsed a parse error, both ahead of an invalid
\* specification, and an invalid specification is reported ahead of an
\* absent schema name.
C9_FirstFailingStage == StagesInOrder("parse")

C9_Witness ==
    /\ pc = "done" /\ SpecReadable /\ ~SpecIsValid
    /\ args.json \in DOMAIN fs /\ fs[args.json].kind = "garbage"
    /\ errKind = "parse" /\ Last(trace) = "read_json"

\* C10: a valid specification without a components key, or without a schemas
\* key under it, fails at the lookup as an absent name does, whatever the
\* name: non-zero status, the document never validated, OK never printed.
C10_NoComponentsIsLookupFailure ==
    (SpecIsValid /\ JsonReadable /\ fs[argv[1]].components # "schemas") =>
        /\ ~InTrace("validate")
        /\ pc # "validate" /\ pc # "print"
        /\ ~Printed("OK")
        /\ pc = "done" => (errKind = "lookup" /\ exitCode = 1)

C10_Witness ==
    /\ pc = "done" /\ errKind = "lookup" /\ exitCode = 1
    /\ spec_dict.kind = "dict" /\ spec_dict.components = "absent"
====
